---- MODULE Spec2Model ----
(***************************************************************************)
(* Model of WarpX's RigidInjectedParticleContainer: the per-level          *)
(* injection plane (InitData, Evolve), the wrapped push PushPX with its    *)
(* save / generic push / undo sequence, and the momentum-only push PushP.  *)
(*                                                                         *)
(* Lengths, times, velocities and momenta are integers in model units;     *)
(* real arithmetic of the source is carried out in fixed point, with       *)
(* quotients and square roots truncated towards zero.                      *)
(***************************************************************************)
EXTENDS Integers, Sequences, FiniteSets, TLC

(***************************************************************************)
(* Bounds of the model.                                                    *)
(***************************************************************************)
\* largest finestLevel() drawn by Init
MaxLev == 1
\* number of time steps (Evolve on every level, then MoveWindow) explored
MaxSteps == 2
\* largest number of particles of the tile under Spec
MaxNp == 1
\* largest number of particles of the tile under SpecPush
MaxNpPush == 2
\* number of time steps explored under SpecLive
MaxStepsLive == 6

(***************************************************************************)
(* Physical constant and input domains.                                    *)
(***************************************************************************)
\* PhysConst::c in model units
c == 4

\* (gamma_boost, beta_boost*c) pairs: no boost, and gamma = 2 with
\* beta*c = c*sqrt(3)/2 truncated
Boosts == { <<1, 0>>, <<2, 3>> }
\* WarpX::moving_window_v
WindowVs == { -c, 0, c }
\* <species>.zinject_plane, lab frame (multiples of every gamma_boost)
ZInjectPlanes == { -4, 4, 8, 12 }
\* Geom(lev).ProbLo()[zdir], ProbHi()[zdir] at t = 0
ProbLo0 == 0
ProbHi0 == 6
\* time steps dt passed to Evolve
Dts == { 0, 1, 2 }
\* time step passed to PushP: the momenta are pushed back before the first
\* step and forward after the last one
PushPDt(n) == IF n = 0 THEN -1 ELSE 1
\* momenta (ux, uy, uz) a particle can carry
U == { [ux |-> 0, uy |-> 0, uz |-> 0],
       [ux |-> 0, uy |-> 0, uz |-> 6],
       [ux |-> 3, uy |-> 3, uz |-> -3] }
\* initial z of injected particles
BeamZs == { 1, 5 }
\* values of WarpX::particle_pusher_algo: the three variants of
\* ParticlePusherAlgo the push knows, and a value that is none of them
KnownPushers == { "Boris", "Vay", "HigueraCary" }
PusherAlgos == KnownPushers \cup { "Unknown" }

(***************************************************************************)
(* Arithmetic helpers.                                                     *)
(***************************************************************************)
\* quotient truncated towards zero (b > 0)
Quot(a, b) == IF a >= 0 THEN a \div b ELSE -((-a) \div b)

\* integer square root
ISqrt(n) == CHOOSE r \in 0..n : r * r <= n /\ n < (r + 1) * (r + 1)

\* c * sqrt(1 + |u|^2/c^2), i.e. c / gi of the source
CGamma(u) == ISqrt(c * c + u.ux * u.ux + u.uy * u.uy + u.uz * u.uz)

\* velocity components u * gi
Vx(u) == Quot(u.ux * c, CGamma(u))
Vy(u) == Quot(u.uy * c, CGamma(u))
Vz(u) == Quot(u.uz * c, CGamma(u))

Mom(p) == [ux |-> p.ux, uy |-> p.uy, uz |-> p.uz]
Pos(p) == [x |-> p.x, y |-> p.y, z |-> p.z]
Particle(r, u) == [x |-> r.x, y |-> r.y, z |-> r.z,
                   ux |-> u.ux, uy |-> u.uy, uz |-> u.uz]

RECURSIVE SumVz(_)
SumVz(P) == IF P = <<>> THEN 0 ELSE Vz(Mom(Head(P))) + SumVz(Tail(P))

VARIABLES
    \* configuration, fixed at construction
    gamma_boost, v_boost, moving_window_v, zinject_plane, rigid_advance,
    finestLevel, do_not_push, pusher_algo, do_crr,
    \* RigidInjectedParticleContainer members
    zinject_plane_levels, zinject_plane_lev, zinject_plane_lev_previous,
    done_injecting_lev, vzbeam_ave_boosted,
    \* particle tiles, one per level
    particles,
    \* Geom(lev).ProbLo()/ProbHi() along z
    plo, phi,
    \* position of the time loop
    pc, evolving, stepDt, calls, evolved, synced, nstep,
    \* observations: the tile before the last push call, the tile as the
    \* generic push left it, the call itself, and for each level the flag,
    \* plane position and domain bounds with which each of its Evolve steps
    \* ended
    pre, gen, last, history,
    \* the species lookup in progress (SpeciesPhysicalProperties.H)
    species,
    \* the last call of ProtonBoronFusionCrossSection
    xsec,
    \* a FieldAccessorMacroscopic object and its last call
    macro,
    \* the tiles of one level while the workers of PushP's parallel region
    \* process them
    omp,
    \* a scope that uses the profiling macros (WarpXProfilerWrapper.H)
    prof,
    \* a SpectralSolverRZ object and the calls made on it
    solver

\* the variables of the particle container and its time loop
container == << gamma_boost, v_boost, moving_window_v, zinject_plane, rigid_advance,
           finestLevel, do_not_push, pusher_algo, do_crr,
           zinject_plane_levels, zinject_plane_lev, zinject_plane_lev_previous,
           done_injecting_lev, vzbeam_ave_boosted, particles, plo, phi,
           pc, evolving, stepDt, calls, evolved, synced, nstep,
           pre, gen, last, history >>

\* the variables of the stand-alone functions
aux == << species, xsec, macro, omp, prof, solver >>

vars == << container, aux >>

config == << gamma_boost, v_boost, moving_window_v, zinject_plane, rigid_advance,
             finestLevel, do_not_push, pusher_algo, do_crr >>

Levels == 0..finestLevel

\* a ScaleFields object built without the beam's velocity
ScaleFieldsNoBeam(do_scale, dt, z_plane_previous, vz_ave_boosted, v) ==
    [do_scale |-> do_scale, dt |-> dt, z_plane_previous |-> z_plane_previous,
     vz_ave_boosted |-> 0, v_boost |-> v]

\* the ScaleFields object PushPX builds for the generic push: the members its
\* constructor arguments give it
ScaleFields(do_scale, dt, z_plane_previous, vz_ave_boosted, v) ==
    [do_scale |-> do_scale, dt |-> dt, z_plane_previous |-> z_plane_previous,
     vz_ave_boosted |-> vz_ave_boosted, v_boost |-> v]

NoCall == [op |-> "none", lev |-> 0, offset |-> 0, np_to_push |-> 0, dt |-> 0,
           done |-> FALSE, plane |-> 0, ub |-> FALSE, pusher |-> "none",
           scale |-> ScaleFields(FALSE, 0, 0, 0, 0), variants |-> << >>]


(***************************************************************************)
(* SpeciesPhysicalProperties.H                                             *)
(***************************************************************************)
\* enum struct PhysicalSpecies, by enumerator value 0..10
PhysicalSpecies ==
    [ v \in 0..10 |->
        << "unspecified", "electron", "positron", "photon", "hydrogen", "helium",
           "boron", "carbon", "nitrogen", "oxygen", "copper" >>[v + 1] ]
\* the values a PhysicalSpecies variable can hold: the enumerators and a
\* value cast from outside the enumeration
NumSpecies == 11
SpeciesValues == 0..NumSpecies
\* the enumerator with a given name
Enumerator(n) == CHOOSE v \in DOMAIN PhysicalSpecies : PhysicalSpecies[v] = n
\* species names of input files: those from_string accepts and two it does not
AcceptedNames ==
    { "unspecified", "electron", "positron", "photon", "hydrogen", "proton",
      "helium", "alpha", "boron", "carbon", "nitrogen", "oxygen", "copper" }
SpeciesNames == AcceptedNames \cup { "neutron", "Electron" }

\* results of the lookups: a number int + frac/10^5 in a unit, a quiet NaN,
\* a string, or the process aborted inside the call; NotAsked before the call
Number(unit, int, frac) ==
    [status |-> "value", unit |-> unit, int |-> int, frac |-> frac, str |-> ""]
QuietNaN == [status |-> "nan", unit |-> "", int |-> 0, frac |-> 0, str |-> ""]
String(str) == [status |-> "value", unit |-> "", int |-> 0, frac |-> 0, str |-> str]
Enum(v) == [status |-> "value", unit |-> "PhysicalSpecies", int |-> v, frac |-> 0, str |-> ""]
Abort == [status |-> "abort", unit |-> "", int |-> 0, frac |-> 0, str |-> ""]
NotAsked == [status |-> "none", unit |-> "", int |-> 0, frac |-> 0, str |-> ""]

\* species::from_string
from_string(name) ==
    IF name = "unspecified" THEN Enum(Enumerator("unspecified"))
    ELSE IF name = "electron" THEN Enum(Enumerator("electron"))
    ELSE IF name = "positron" THEN Enum(Enumerator("positron"))
    ELSE IF name = "photon" THEN Enum(Enumerator("photon"))
    ELSE IF name = "hydrogen" THEN Enum(Enumerator("hydrogen"))
    ELSE IF name = "proton" THEN Enum(Enumerator("hydrogen"))
    ELSE IF name = "helium" THEN Enum(Enumerator("helium"))
    ELSE IF name = "alpha" THEN Enum(Enumerator("helium"))
    ELSE IF name = "boron" THEN Enum(Enumerator("boron"))
    ELSE IF name = "carbon" THEN Enum(Enumerator("carbon"))
    ELSE IF name = "nitrogen" THEN Enum(Enumerator("nitrogen"))
    ELSE IF name = "oxygen" THEN Enum(Enumerator("oxygen"))
    ELSE IF name = "copper" THEN Enum(Enumerator("copper"))
    ELSE Abort

\* a get_charge that treats the unspecified species as an error
get_charge_strict(ps) ==
    IF ps \in 1..10
    THEN Number("q_e", << -1, 1, 0, 1, 2, 5, 6, 7, 8, 29 >>[ps], 0)
    ELSE Abort

\* species::get_charge, in units of PhysConst::q_e
get_charge(ps) ==
    IF ps = 0 THEN QuietNaN
    ELSE IF ps \in 1..10
         THEN Number("q_e", << -1, 1, 0, 1, 2, 5, 6, 7, 8, 29 >>[ps], 0)
         ELSE Abort

\* species::get_mass, in units of PhysConst::m_e or PhysConst::m_p
get_mass(ps) ==
    IF ps = 0 THEN QuietNaN
    ELSE IF ps \in 1..10
         THEN << Number("m_e", 1, 0), Number("m_e", 1, 0), Number("", 0, 0),
                 Number("m_p", 1, 0), Number("m_p", 3, 97369),
                 Number("m_p", 10, 73190), Number("m_e", 22032, 0),
                 Number("m_e", 25716, 90000), Number("m_p", 15, 88340),
                 Number("m_p", 63, 8640) >>[ps]
         ELSE Abort

\* a get_name that calls hydrogen and helium by their other names
get_name_alias(ps) ==
    CASE ps = Enumerator("unspecified") -> String("unspecified")
      [] ps = Enumerator("electron") -> String("electron")
      [] ps = Enumerator("positron") -> String("positron")
      [] ps = Enumerator("photon") -> String("photon")
      [] ps = Enumerator("hydrogen") -> String("proton")
      [] ps = Enumerator("helium") -> String("alpha")
      [] ps = Enumerator("boron") -> String("boron")
      [] ps = Enumerator("carbon") -> String("carbon")
      [] ps = Enumerator("nitrogen") -> String("nitrogen")
      [] ps = Enumerator("oxygen") -> String("oxygen")
      [] ps = Enumerator("copper") -> String("copper")
      [] OTHER -> Abort

\* species::get_name
get_name(ps) ==
    CASE ps = Enumerator("unspecified") -> String("unspecified")
      [] ps = Enumerator("electron") -> String("electron")
      [] ps = Enumerator("positron") -> String("positron")
      [] ps = Enumerator("photon") -> String("photon")
      [] ps = Enumerator("hydrogen") -> String("hydrogen")
      [] ps = Enumerator("helium") -> String("helium")
      [] ps = Enumerator("boron") -> String("boron")
      [] ps = Enumerator("carbon") -> String("carbon")
      [] ps = Enumerator("nitrogen") -> String("nitrogen")
      [] ps = Enumerator("oxygen") -> String("oxygen")
      [] ps = Enumerator("copper") -> String("copper")
      [] OTHER -> Abort

\* no species has been looked up
NoSpecies == [name |-> "", ps |-> NotAsked, charge |-> NotAsked,
              mass |-> NotAsked, label |-> NotAsked, reparsed |-> NotAsked,
              aborted |-> FALSE]

\* a species is given by its name in the input file
SpeciesFromString(name) ==
    /\ species = NoSpecies
    /\ species' = [species EXCEPT !.name = name, !.ps = from_string(name),
                                  !.aborted = from_string(name) = Abort]
    /\ UNCHANGED << container, omp, prof, solver, xsec, macro >>

\* a species is given by a PhysicalSpecies value
SpeciesFromValue(v) ==
    /\ species = NoSpecies
    /\ species' = [species EXCEPT !.ps = Enum(v)]
    /\ UNCHANGED << container, omp, prof, solver, xsec, macro >>

\* the first uses of the species: its charge, its mass, its name
SpeciesGetCharge ==
    /\ ~species.aborted /\ species.ps.status = "value"
    /\ species.charge = NotAsked
    /\ species' = [species EXCEPT !.charge = get_charge(species.ps.int),
                                  !.aborted = get_charge(species.ps.int) = Abort]
    /\ UNCHANGED << container, omp, prof, solver, xsec, macro >>

SpeciesGetMass ==
    /\ ~species.aborted /\ species.ps.status = "value"
    /\ species.mass = NotAsked
    /\ species' = [species EXCEPT !.mass = get_mass(species.ps.int),
                                  !.aborted = get_mass(species.ps.int) = Abort]
    /\ UNCHANGED << container, omp, prof, solver, xsec, macro >>

SpeciesGetName ==
    /\ ~species.aborted /\ species.ps.status = "value"
    /\ species.label = NotAsked
    /\ species' = [species EXCEPT !.label = get_name(species.ps.int),
                                  !.aborted = get_name(species.ps.int) = Abort]
    /\ UNCHANGED << container, omp, prof, solver, xsec, macro >>

\* the name get_name returned is given back to from_string
SpeciesFromName ==
    /\ ~species.aborted /\ species.label.status = "value"
    /\ species.reparsed = NotAsked
    /\ species' = [species EXCEPT !.reparsed = from_string(species.label.str),
                                  !.aborted = from_string(species.label.str) = Abort]
    /\ UNCHANGED << container, omp, prof, solver, xsec, macro >>

(***************************************************************************)
(* ProtonBoronFusionCrossSection.H                                         *)
(*                                                                         *)
(* Energies are integers in keV; the astrophysical factor is kept in units *)
(* of 0.01 MeV barn, with every quotient truncated.                        *)
(***************************************************************************)
\* kinetic energies E_kin_star of the pair, in keV
EnergiesKev == { 0, 1, 100, 148, 399, 400, 500, 641, 642, 1083, 2405, 3344 }
\* limits between the fit regions, in keV
E_lim1 == 400
E_lim2 == 642
\* gamow_factor, in keV (22.55 MeV)
GamowKev == 22554

\* the three fits of the astrophysical factor
AstrophysicalFactor(E_kev) ==
    IF E_kev < E_lim1
    THEN 19700 + 24 * E_kev + Quot(231 * E_kev * E_kev, 10000)
         + Quot(182000000, (E_kev - 148) * (E_kev - 148) * 100 + 552)
    ELSE IF E_kev < E_lim2
    THEN LET d == E_kev - 400
             d2 == Quot(d * d, 100)
             d4 == d2 * d2
             d5 == Quot(d4 * d, 100)
         IN  33000 + Quot(6610 * d, 100) - Quot(2030 * d * d, 10000)
             - Quot(158 * d5, 10000)
    ELSE LET Sq(a) == Quot(a * a, 100)
         IN  Quot(257000000, Sq(10 * E_kev - 5813) + 7344)
             + Quot(56700000, Sq(10 * E_kev - 10830) + 54756)
             + Quot(13400000, Sq(10 * E_kev - 24050) + 19044)
             + Quot(56800000, Sq(10 * E_kev - 33440) + 95481)
             + 438

\* the code below the early return: the cross section as the triple of
\* astrophysical_factor/E_mev * exp(-sqrt(gamow_factor/E_mev)), with the list
\* of the divisors evaluated; a division by E_mev = 0 gives inf * exp(-inf),
\* which is NaN
FittedCrossSection(E_kev) ==
    IF E_kev = 0
    THEN [status |-> "nan", early |-> FALSE, factor |-> AstrophysicalFactor(0),
          over |-> 0, exponent |-> 0, divisors |-> << 0, 0 >>]
    ELSE [status |-> "value", early |-> FALSE,
          factor |-> AstrophysicalFactor(E_kev), over |-> E_kev,
          exponent |-> ISqrt(Quot(GamowKev, E_kev)),
          divisors |-> << E_kev, E_kev >>]

\* the function without its first statement
ProtonBoronFusionCrossSectionUnguarded(E_kev) == FittedCrossSection(E_kev)

\* ProtonBoronFusionCrossSection: a zero energy returns a zero cross section
\* before anything else is computed
ProtonBoronFusionCrossSection(E_kev) ==
    IF E_kev = 0
    THEN [status |-> "value", early |-> TRUE, factor |-> 0, over |-> 1,
          exponent |-> 0, divisors |-> << >>]
    ELSE FittedCrossSection(E_kev)

NoCrossSection == [called |-> FALSE, E_kin_star |-> 0,
                   result |-> [status |-> "none", early |-> FALSE, factor |-> 0,
                               over |-> 1, exponent |-> 0, divisors |-> << >>]]

\* one call of the function
CrossSection(E_kev) ==
    /\ ~xsec.called
    /\ xsec' = [called |-> TRUE, E_kin_star |-> E_kev,
                result |-> ProtonBoronFusionCrossSection(E_kev)]
    /\ UNCHANGED << container, omp, prof, solver, species, macro >>

(***************************************************************************)
(* MacroscopicProperties.H, FieldAccessorFunctors.H                        *)
(*                                                                         *)
(* Cell coordinates are integers in units of half a cell size.             *)
(***************************************************************************)
\* enum MacroparameterInitType, and a value that is neither enumerator
InitTypes == { "ConstantValue", "ParserFunction", "Invalid" }
\* constant values m_value of a macroparameter
MacroValues == { 0, 2, 3 }
\* parser functions m_parser of (x, y, z)
Parsers == { "1+x+z", "2+y" }
ParserExecutor(f, x, y, z) == IF f = "1+x+z" THEN 1 + x + z ELSE 2 + y
\* the cells and components of the field array
CellIndices == { 0, 1 }
Components == { 0, 1 }
\* the field arrays m_field, with values every parameter of the model divides
FieldArrays == { "ramp", "flat" }
Array4(a, i, j, k, n) == IF a = "ramp" THEN 2520 * (1 + i + 2 * k) * (n + 1) ELSE 5040
\* staggering of the field: 0 cell-centred, 1 nodal, along x, y and z
Staggerings == { << 0, 0, 0 >>, << 1, 0, 1 >> }
\* a_domain_lo and a_dx, in half cells
DomainLo == << 0, 0, 2 >>
CellSize == << 2, 2, 2 >>

\* WarpXUtilAlgo::getCellCoordinates: the position of the field value of a
\* cell, half a cell above the node for a cell-centred direction
getCellCoordinates(i, j, k, stag, lo, dx) ==
    << lo[1] + i * dx[1] + (1 - stag[1]) * (dx[1] \div 2),
       lo[2] + j * dx[2] + (1 - stag[2]) * (dx[2] \div 2),
       lo[3] + k * dx[3] + (1 - stag[3]) * (dx[3] \div 2) >>

\* GetMacroparameter::operator()
GetMacroparameter(g, x, y, z) ==
    IF g.m_type = "ConstantValue" THEN Number("", g.m_value, 0)
    ELSE IF g.m_type = "ParserFunction"
         THEN Number("", ParserExecutor(g.m_parser, x, y, z), 0)
         ELSE Abort

\* the quotient of two reals: a / 0 is an infinity (a NaN for a = 0)
Divided(a, b) ==
    IF b.status = "abort" THEN Abort
    ELSE IF b.int = 0 THEN [QuietNaN EXCEPT !.status = IF a = 0 THEN "nan" ELSE "inf"]
    ELSE Number("", Quot(a, b.int), 0)

\* an accessor that evaluates the macroparameter at the domain's lower corner
FieldAccessorAtCorner(acc, i, j, k, ncomp) ==
    Divided(Array4(acc.m_field, i, j, k, ncomp),
            GetMacroparameter(acc.m_getParameter, acc.m_domain_lo[1],
                              acc.m_domain_lo[2], acc.m_domain_lo[3]))

\* FieldAccessorMacroscopic::operator()
FieldAccessorMacroscopic(acc, i, j, k, ncomp) ==
    LET r == getCellCoordinates(i, j, k, acc.m_field_stag, acc.m_domain_lo, acc.m_dx)
    IN  Divided(Array4(acc.m_field, i, j, k, ncomp),
                GetMacroparameter(acc.m_getParameter, r[1], r[2], r[3]))

NoAccessor == [built |-> FALSE, called |-> FALSE,
               acc |-> [m_field |-> "flat",
                        m_getParameter |-> [m_type |-> "ConstantValue", m_value |-> 0,
                                            m_parser |-> "2+y"],
                        m_field_stag |-> << 0, 0, 0 >>, m_domain_lo |-> DomainLo,
                        m_dx |-> CellSize],
               at |-> << 0, 0, 0, 0 >>, result |-> NotAsked]

\* the constructor of FieldAccessorMacroscopic
AccessorBuild(a_field, type, value, parser, stag) ==
    /\ ~macro.built
    /\ macro' = [macro EXCEPT
           !.built = TRUE,
           !.acc = [m_field |-> a_field,
                    m_getParameter |-> [m_type |-> type, m_value |-> value,
                                        m_parser |-> parser],
                    m_field_stag |-> stag, m_domain_lo |-> DomainLo,
                    m_dx |-> CellSize]]
    /\ UNCHANGED << container, omp, prof, solver, species, xsec >>

\* one call of operator(): a const member, it writes nothing but its result
AccessorCall(i, j, k, ncomp) ==
    /\ macro.built /\ macro.result # Abort
    /\ macro' = [macro EXCEPT
           !.called = TRUE,
           !.at = << i, j, k, ncomp >>,
           !.result = FieldAccessorMacroscopic(macro.acc, i, j, k, ncomp)]
    /\ UNCHANGED << container, omp, prof, solver, species, xsec >>

(***************************************************************************)
(* WarpXProfilerWrapper.H                                                  *)
(***************************************************************************)
\* values of WarpX::do_device_synchronize
SyncLevels == 0..3
\* macros one scope uses
MaxMacros == 2

\* the macros of the header: the template argument of their
\* doDeviceSynchronize and synchronizeOnDestruct, whether they begin with a
\* doDeviceSynchronize call, the AMReX macro they expand to, and whether they
\* declare a synchronizeOnDestruct object after it
ProfileMacros ==
    [ WARPX_PROFILE |->
          [detail |-> 1, first |-> TRUE, bl |-> "BL_PROFILE", scoped |-> TRUE],
      WARPX_PROFILE_VAR |->
          [detail |-> 1, first |-> TRUE, bl |-> "BL_PROFILE_VAR", scoped |-> TRUE],
      WARPX_PROFILE_VAR_NS |->
          [detail |-> 1, first |-> FALSE, bl |-> "BL_PROFILE_VAR_NS", scoped |-> TRUE],
      WARPX_PROFILE_VAR_START |->
          [detail |-> 1, first |-> TRUE, bl |-> "BL_PROFILE_VAR_START", scoped |-> FALSE],
      WARPX_PROFILE_VAR_STOP |->
          [detail |-> 1, first |-> TRUE, bl |-> "BL_PROFILE_VAR_STOP", scoped |-> FALSE],
      WARPX_PROFILE_REGION |->
          [detail |-> 1, first |-> TRUE, bl |-> "BL_PROFILE_REGION", scoped |-> TRUE],
      WARPX_DETAIL_PROFILE |->
          [detail |-> 2, first |-> TRUE, bl |-> "BL_PROFILE", scoped |-> TRUE],
      WARPX_DETAIL_PROFILE_VAR |->
          [detail |-> 2, first |-> TRUE, bl |-> "BL_PROFILE_VAR", scoped |-> TRUE],
      WARPX_DETAIL_PROFILE_VAR_NS |->
          [detail |-> 2, first |-> FALSE, bl |-> "BL_PROFILE_VAR_NS", scoped |-> TRUE],
      WARPX_DETAIL_PROFILE_VAR_START |->
          [detail |-> 2, first |-> TRUE, bl |-> "BL_PROFILE_VAR_START", scoped |-> FALSE],
      WARPX_DETAIL_PROFILE_VAR_STOP |->
          [detail |-> 2, first |-> TRUE, bl |-> "BL_PROFILE_VAR_STOP", scoped |-> FALSE],
      WARPX_DETAIL_PROFILE_REGION |->
          [detail |-> 2, first |-> TRUE, bl |-> "BL_PROFILE_REGION", scoped |-> TRUE] ]

MacroNames == DOMAIN ProfileMacros

Event(kind, detail) == [kind |-> kind, detail |-> detail]

\* doDeviceSynchronize<detail_level>(): what the call adds to the trace, a
\* device synchronization or nothing but the fact that it was called
doDeviceSynchronize(level, detail_level) ==
    IF level >= detail_level
    THEN << Event("synchronize", detail_level) >>
    ELSE << Event("skip", detail_level) >>

\* the timers of the scope, in the order of their declaration
Timers(objects) == { i \in DOMAIN objects : objects[i].kind = "timer" }
Stopped(objects) == { i \in Timers(objects) : ~objects[i].running }
Running(objects) == { i \in Timers(objects) : objects[i].running }
Latest(S) == CHOOSE i \in S : \A k \in S : k <= i

\* the AMReX macro can be used here: the _START and _STOP forms need a timer
\* variable that is stopped or running
BLUsable(bl, objects) ==
    CASE bl = "BL_PROFILE_VAR_START" -> Stopped(objects) # { }
      [] bl = "BL_PROFILE_VAR_STOP" -> Running(objects) # { }
      [] OTHER -> TRUE

\* what the AMReX macro adds to the trace
BLEvents(bl) ==
    CASE bl = "BL_PROFILE_VAR_NS" -> << >>
      [] bl = "BL_PROFILE_VAR_STOP" -> << Event("stop", 0) >>
      [] OTHER -> << Event("start", 0) >>

\* the objects of the scope after the AMReX macro
BLObjects(bl, objects) ==
    CASE bl = "BL_PROFILE_VAR_NS" ->
             Append(objects, [kind |-> "timer", detail |-> 0, running |-> FALSE])
      [] bl = "BL_PROFILE_VAR_START" ->
             [objects EXCEPT ![Latest(Stopped(objects))].running = TRUE]
      [] bl = "BL_PROFILE_VAR_STOP" ->
             [objects EXCEPT ![Latest(Running(objects))].running = FALSE]
      [] OTHER ->
             Append(objects, [kind |-> "timer", detail |-> 0, running |-> TRUE])

Reverse(seq) == [i \in 1..Len(seq) |-> seq[Len(seq) + 1 - i]]

\* objects destroyed in the order they were declared in
DeclarationOrder(objects) == objects

\* objects of a scope are destroyed in the reverse order of declaration
DestructionOrder(objects) == Reverse(objects)

\* the destructors of the objects, run in the order given:
\* ~synchronizeOnDestruct calls doDeviceSynchronize, and the destructor of a
\* timer that is running stops it
RECURSIVE Destructors(_, _)
Destructors(objects, level) ==
    IF objects = << >> THEN << >>
    ELSE LET o == Head(objects)
             ev == IF o.kind = "sync" THEN doDeviceSynchronize(level, o.detail)
                   ELSE IF o.running THEN << Event("stop", 0) >>
                   ELSE << >>
         IN  ev \o Destructors(Tail(objects), level)

NoProfiler == [level |-> 0, open |-> FALSE, closed |-> FALSE,
               used |-> << >>, objects |-> << >>, trace |-> << >>]

\* a scope is entered in a run configured with do_device_synchronize = level
ProfilerOpen(level) ==
    /\ ~prof.open /\ ~prof.closed
    /\ prof' = [prof EXCEPT !.level = level, !.open = TRUE]
    /\ UNCHANGED << container, species, xsec, macro, omp, solver >>

\* one macro of the header is executed in the scope
ProfilerMacro(m) ==
    /\ prof.open
    /\ Len(prof.used) < MaxMacros
    /\ LET d == ProfileMacros[m]
       IN  /\ BLUsable(d.bl, prof.objects)
           /\ prof' = [prof EXCEPT
                  !.used = Append(@, m),
                  !.trace = @ \o (IF d.first THEN doDeviceSynchronize(prof.level, d.detail)
                                             ELSE << >>)
                              \o BLEvents(d.bl),
                  !.objects =
                      IF d.scoped
                      THEN Append(BLObjects(d.bl, @),
                                  [kind |-> "sync", detail |-> d.detail, running |-> FALSE])
                      ELSE BLObjects(d.bl, @)]
    /\ UNCHANGED << container, species, xsec, macro, omp, solver >>

\* the scope is left and its objects are destroyed
ProfilerScopeExit ==
    /\ prof.open
    /\ prof' = [prof EXCEPT
           !.open = FALSE, !.closed = TRUE,
           !.objects = << >>,
           !.trace = @ \o Destructors(DestructionOrder(prof.objects), prof.level)]
    /\ UNCHANGED << container, species, xsec, macro, omp, solver >>

(***************************************************************************)
(* SpectralSolverRZ.cpp                                                    *)
(***************************************************************************)
\* values of v_galilean[2]
GalileanVz == { -1, 0, 1 }
\* calls made on one solver
MaxSolverCalls == 3

\* the member functions that go to the algorithm object, and those that go to
\* the spectral field data
AlgorithmMethods == { "pushSpectralFields", "ComputeSpectralDivE",
                      "CurrentCorrection", "VayDeposition" }
FieldDataMethods == { "ForwardTransform", "BackwardTransform" }

\* a constructor that always builds the standard algorithm
SelectAlgorithmStandard(v_galilean_z) == "PsatdAlgorithmRZ"

\* the constructor's choice of the algorithm
SelectAlgorithm(v_galilean_z) ==
    IF v_galilean_z = 0 THEN "PsatdAlgorithmRZ" ELSE "GalileanPsatdAlgorithmRZ"

NoSolver == [built |-> FALSE, v_galilean_z |-> 0, pml |-> FALSE,
             algorithm |-> "null", calls |-> << >>]

\* SpectralSolverRZ::SpectralSolverRZ
SolverConstruct(v_galilean_z) ==
    /\ ~solver.built
    /\ solver' = [solver EXCEPT !.built = TRUE,
                                !.v_galilean_z = v_galilean_z,
                                !.pml = FALSE,
                                !.algorithm = SelectAlgorithm(v_galilean_z)]
    /\ UNCHANGED << container, species, xsec, macro, omp, prof >>

\* one of the member functions: the object the call is handed to
SolverCall(method) ==
    /\ solver.built
    /\ Len(solver.calls) < MaxSolverCalls
    /\ solver' = [solver EXCEPT !.calls =
           Append(@, [method |-> method,
                      on |-> IF method \in AlgorithmMethods
                             THEN solver.algorithm ELSE "field_data"])]
    /\ UNCHANGED << container, species, xsec, macro, omp, prof >>

\* the tiles of the level and the PushP calls made on it
Tiles == { 1, 2 }
MaxPushPCalls == 2
\* zz of the undo loop
TilePlane == 3

NoTiles == [on |-> FALSE,
            tile |-> [t \in Tiles |-> << >>],
            phase |-> [t \in Tiles |-> "off"],
            round |-> [t \in Tiles |-> 0],
            save |-> [t \in Tiles |-> << >>],
            before |-> [t \in Tiles |-> << >>],
            pushed |-> [t \in Tiles |-> << >>],
            reads |-> [t \in Tiles |-> { }]]


(***************************************************************************)
(* Construction: the species' zinject_plane and rigid_advance are read     *)
(* from the input file; nothing is allocated per level yet.                *)
(***************************************************************************)
\* the members the constructor does not assign: the level starts INJECTING;
\* the two per-step positions are written by Evolve before any read;
\* vzbeam_ave_boosted is written by RemapParticles under rigid_advance, and
\* without rigid_advance only handed on to ScaleFields as it is
MemberDefaults ==
    /\ zinject_plane_lev = 0
    /\ zinject_plane_lev_previous = 0
    /\ done_injecting_lev = FALSE
    /\ vzbeam_ave_boosted = 0

Constructed ==
    /\ zinject_plane_levels = [l \in {} |-> 0]
    /\ MemberDefaults
    /\ particles = [l \in Levels |-> <<>>]
    /\ plo = ProbLo0
    /\ phi = ProbHi0
    /\ pc = "new"
    /\ evolving = 0
    /\ stepDt = 0
    /\ calls = <<>>
    /\ evolved = {}
    /\ synced = {}
    /\ nstep = 0
    /\ pre = <<>>
    /\ gen = <<>>
    /\ last = NoCall
    /\ history = [l \in Levels |-> <<>>]
    /\ species = NoSpecies
    /\ xsec = NoCrossSection
    /\ macro = NoAccessor
    /\ omp = NoTiles
    /\ prof = NoProfiler
    /\ solver = NoSolver

Init ==
    /\ \E b \in Boosts : gamma_boost = b[1] /\ v_boost = b[2]
    /\ moving_window_v \in WindowVs
    /\ zinject_plane \in ZInjectPlanes
    /\ rigid_advance = FALSE
    /\ finestLevel \in 0..MaxLev
    /\ do_not_push \in BOOLEAN
    /\ pusher_algo = "Boris"
    /\ do_crr = FALSE
    /\ Constructed

(***************************************************************************)
(* InitData                                                                *)
(***************************************************************************)
\* the lab-frame position taken as it is, without the division by gamma_boost
PlaneInLabFrame == zinject_plane

\* zinject_plane/WarpX::gamma_boost
PlaneInBoostedFrame == Quot(zinject_plane, gamma_boost)

\* meanParticleVelocity(false)[2]
MeanParticleVelocityZ(P) == IF P = <<>> THEN 0 ELSE Quot(SumVz(P), Len(P))

\* the z of one particle after RemapParticles, with t_lab = 0:
\*   z_lab = zp/(gamma_boost + uz_boost*vzpr/c^2)
\*   tpr   = -uz_boost*z_lab/c^2
\*   zp   += tpr*vzpr - tpr*vave
\* written over the common denominator gamma_boost*c^2 + uz_boost*vzpr, so that
\* the fixed-point result is truncated once
RemappedZ(p, vave) ==
    LET uz_boost == gamma_boost * v_boost
        vzpr == Vz(Mom(p))
    IN  p.z + Quot(-(uz_boost * p.z * (vzpr - vave)),
                   gamma_boost * c * c + uz_boost * vzpr)

RemapParticles(P, vave) ==
    IF rigid_advance
    THEN [i \in 1..Len(P) |-> [P[i] EXCEPT !.z = RemappedZ(P[i], vave)]]
    ELSE P

\* the beams AddParticles can add: up to n particles, particle k at x = k
Beams(n) ==
    UNION { { [k \in 1..m |-> Particle([x |-> k, y |-> 0, z |-> zu[k][1]], zu[k][2])] :
              zu \in [1..m -> BeamZs \X U] } : m \in 0..n }

\* InitData with the beam AddParticles adds and the level Redistribute
\* assigns the beam's tile to
InitData(beam, home) ==
    /\ pc = "new"
    /\ zinject_plane_levels' = [l \in Levels |-> PlaneInBoostedFrame]
    /\ vzbeam_ave_boosted' = IF rigid_advance THEN MeanParticleVelocityZ(beam)
                                              ELSE vzbeam_ave_boosted
    /\ particles' = [l \in Levels |->
                       IF l = home
                       THEN RemapParticles(beam, MeanParticleVelocityZ(beam))
                       ELSE <<>>]
    /\ pc' = "idle"
    /\ UNCHANGED << aux, config, zinject_plane_lev, zinject_plane_lev_previous,
                    done_injecting_lev, plo, phi, evolving, stepDt, calls,
                    evolved, synced, nstep, pre, gen, last, history >>

(***************************************************************************)
(* Evolve                                                                  *)
(***************************************************************************)
\* the plane moved with the boost instead of against it
AdvancedPlaneForward(z, dt) == z + dt * v_boost

\* the plane left where it is
AdvancedPlaneStuck(z, dt) == z

\* the plane advanced a second time in the same call
AdvancedPlaneTwice(z, dt) == z - 2 * dt * v_boost

\* the plane position after the step's advance
AdvancedPlane(z, dt) == z - dt * v_boost

\* the test without the direction of the net motion: outside on either side
DoneInjectingAnySide(z, lo, hi) == z < lo \/ z > hi

\* the test with the domain bounds themselves counted as outside
DoneInjectingInclusive(z, lo, hi) ==
    \/ (z <= lo /\ moving_window_v + v_boost >= 0)
    \/ (z >= hi /\ moving_window_v + v_boost <= 0)

\* the test on the lower bound alone
DoneInjectingLowerOnly(z, lo, hi) == z < lo /\ moving_window_v + v_boost >= 0

\* the done-injecting test on the advanced plane
DoneInjecting(z, lo, hi) ==
    \/ (z < lo /\ moving_window_v + v_boost >= 0)
    \/ (z > hi /\ moving_window_v + v_boost <= 0)

\* the PushPX calls PhysicalParticleContainer::Evolve makes for a tile of np
\* particles: the whole tile, or, on a refined level with a gather buffer,
\* the first k particles and then the remaining np - k
PushCalls(lev, np) ==
    { << <<0, np>> >> } \cup
    IF lev > 0 THEN { << <<0, k>>, <<k, np - k>> >> : k \in 0..(np - 1) } ELSE {}

\* Evolve(lev, ..., dt, ...) up to the call of PhysicalParticleContainer::Evolve
Evolve(lev, dt) ==
    /\ pc = "idle"
    /\ lev \notin evolved
    \* the time step is chosen once and kept for the whole run
    /\ (nstep = 0 /\ evolved = {}) \/ dt = stepDt
    /\ zinject_plane_lev_previous' = zinject_plane_levels[lev]
    /\ zinject_plane_levels' =
           [zinject_plane_levels EXCEPT ![lev] = AdvancedPlane(@, dt)]
    /\ zinject_plane_lev' = zinject_plane_levels'[lev]
    /\ done_injecting_lev' = DoneInjecting(zinject_plane_levels'[lev], plo, phi)
    /\ calls' \in PushCalls(lev, Len(particles[lev]))
    /\ pc' = "evolve"
    /\ evolving' = lev
    /\ stepDt' = dt
    /\ synced' = {}
    /\ pre' = <<>>
    /\ gen' = <<>>
    /\ last' = NoCall
    /\ UNCHANGED << aux, config, vzbeam_ave_boosted, particles, plo, phi, evolved,
                    nstep, history >>

(***************************************************************************)
(* PushPX                                                                  *)
(***************************************************************************)
\* a particle with the momentum u the gather and the pusher give it, moved
\* by dt times the velocity of that momentum
Advance(p, u, dt) ==
    Particle([x |-> p.x + dt * Vx(u), y |-> p.y + dt * Vy(u),
              z |-> p.z + dt * Vz(u)], u)

\* PhysicalParticleContainer::PushPX on particles offset .. offset+np_to_push-1
\* (0-based) of tile P; unew[j] is the momentum the gathered fields give to
\* particle j, and a push with dt = 0 changes nothing
GenericPushPX(P, offset, np_to_push, dt, unew) ==
    [j \in 1..Len(P) |->
        IF offset < j /\ j <= offset + np_to_push /\ dt # 0
        THEN Advance(P[j], unew[j], dt)
        ELSE P[j]]

GenericOutcomes(P, offset, np_to_push, dt) ==
    { GenericPushPX(P, offset, np_to_push, dt, unew) : unew \in [1..Len(P) -> U] }

\* the loop indices i (1-based) of the save and undo loops whose snapshot slot
\* offset + i lies past the end of the np-sized buffers and of the momentum
\* arrays
PastTheEnd(np, offset) == { i \in 1..np : offset + i > np }

\* the particle (0-based, within the tile) whose position the loops read and
\* write at loop index i: GetPosition(i, ...) and SetPosition(i, ...)
PositionParticle(offset, i) == i

\* the particle whose momentum the loops read and write at loop index i:
\* ux[i] with ux = uxp.dataPtr() + offset
MomentumParticle(offset, i) == offset + i

\* the undo loop's test on the position GetPosition(i) returns after the push
NotInjectedYet(q, z_plane_lev) == q.z <= z_plane_lev

\* what the undo loop reads at loop index i:
\*   savedPos: x_save[i], y_save[i], z_save[i], the position the save loop
\*             took from GetPosition(i);
\*   savedMom: ux_save[i], ..., the momentum the save loop took from ux[i],
\*             which is the momentum of particle offset + i.
\* Past the end of the buffers both are whatever the memory holds:
\* slot[i] is the save read back, garbage[i] the momentum found.
SavedPos(P, offset, i, slot) ==
    IF offset + i <= Len(P) THEN Pos(P[i]) ELSE Pos(P[slot[i]])
SavedMom(P, offset, i, garbage) ==
    IF offset + i <= Len(P) THEN Mom(P[offset + i]) ELSE garbage[i]

\* an undo that leaves a particle without rigid advance at its saved z
UndoneZFrozen(z_save, u, dt) ==
    IF rigid_advance THEN z_save + dt * vzbeam_ave_boosted ELSE z_save

\* the z an un-injected particle is given from its saved z
UndoneZ(z_save, u, dt) ==
    IF rigid_advance THEN z_save + dt * vzbeam_ave_boosted
                     ELSE z_save + dt * Vz(u)

\* the undo loop over all pti.numParticles() indices: G is the tile after the
\* generic push, P the tile the save loop saw
UndoPush(P, G, offset, dt, z_plane_lev, slot, garbage) ==
    [j \in 1..Len(P) |->
        LET u == IF j > offset /\ NotInjectedYet(G[j - offset], z_plane_lev)
                 THEN Mom(P[j])
                 ELSE Mom(G[j])
            r == IF NotInjectedYet(G[j], z_plane_lev)
                 THEN LET s == SavedPos(P, offset, j, slot)
                      IN  [x |-> s.x, y |-> s.y,
                           z |-> UndoneZ(s.z, SavedMom(P, offset, j, garbage), dt)]
                 ELSE Pos(G[j])
        IN  Particle(r, u)]

\* a PushPX that undoes the push whatever the flag says, as PushP does
PushPXAlwaysUndo(P, G, done, offset, dt, z_plane_lev, slot, garbage) ==
    UndoPush(P, G, offset, dt, z_plane_lev, slot, garbage)

\* the tile PushPX leaves: the save and undo loops run only while the flag is
\* not set
PushPXResult(P, G, done, offset, dt, z_plane_lev, slot, garbage) ==
    IF done THEN G ELSE UndoPush(P, G, offset, dt, z_plane_lev, slot, garbage)

\* one PushPX call of the Evolve step in progress. A call that is still
\* injecting and has offset > 0 writes past the end of its snapshot buffers:
\* it either ends the process or goes on with what the memory holds.
PushPX(lev, offset, np_to_push, dt) ==
    /\ pc = "evolve"
    /\ lev = evolving
    /\ dt = stepDt
    /\ calls # <<>>
    /\ Head(calls) = <<offset, np_to_push>>
    /\ LET P == particles[lev]
           np == Len(P)
           bad == IF done_injecting_lev THEN {} ELSE PastTheEnd(np, offset)
       IN  \E G \in GenericOutcomes(P, offset, np_to_push, dt) :
           \E slot \in [bad -> 1..np], garbage \in [bad -> U] :
           \E crash \in IF bad = {} THEN {FALSE} ELSE BOOLEAN :
              /\ particles' = [particles EXCEPT ![lev] =
                     PushPXResult(P, G, done_injecting_lev, offset, dt,
                                  zinject_plane_lev, slot, garbage)]
              /\ pre' = P
              /\ gen' = G
              /\ last' = [op |-> "PushPX", lev |-> lev, offset |-> offset,
                          np_to_push |-> np_to_push, dt |-> dt,
                          done |-> done_injecting_lev,
                          plane |-> zinject_plane_lev, ub |-> bad # {},
                          pusher |-> "generic",
                          scale |-> ScaleFields(~done_injecting_lev, dt,
                                                zinject_plane_lev_previous,
                                                vzbeam_ave_boosted, v_boost),
                          variants |-> << >>]
              /\ pc' = IF crash THEN "aborted" ELSE pc
    /\ calls' = Tail(calls)
    /\ UNCHANGED << aux, config, zinject_plane_levels, zinject_plane_lev,
                    zinject_plane_lev_previous, done_injecting_lev,
                    vzbeam_ave_boosted, plo, phi, evolving, stepDt,
                    evolved, synced, nstep, history >>

\* the return of Evolve
EvolveEnd(lev) ==
    /\ pc = "evolve"
    /\ lev = evolving
    /\ calls = <<>>
    /\ pc' = "idle"
    /\ evolved' = evolved \cup {lev}
    /\ history' = [history EXCEPT ![lev] =
                       Append(@, [done |-> done_injecting_lev,
                                  plane |-> zinject_plane_levels[lev],
                                  lo |-> plo, hi |-> phi])]
    /\ pre' = <<>>
    /\ gen' = <<>>
    /\ last' = NoCall
    /\ UNCHANGED << aux, config, zinject_plane_levels, zinject_plane_lev,
                    zinject_plane_lev_previous, done_injecting_lev,
                    vzbeam_ave_boosted, particles, plo, phi, evolving, stepDt,
                    calls, synced, nstep >>

\* the end of a time step: every level has evolved by stepDt and the moving
\* window carries the domain bounds along
MoveWindow ==
    /\ pc = "idle"
    /\ evolved = Levels
    /\ plo' = plo + moving_window_v * stepDt
    /\ phi' = phi + moving_window_v * stepDt
    /\ evolved' = {}
    /\ nstep' = nstep + 1
    /\ UNCHANGED << aux, config, zinject_plane_levels, zinject_plane_lev,
                    zinject_plane_lev_previous, done_injecting_lev,
                    vzbeam_ave_boosted, particles, pc, evolving, stepDt, calls,
                    synced, pre, gen, last, history >>

(***************************************************************************)
(* PushP                                                                   *)
(***************************************************************************)
\* a first loop that moves the particles with their new momenta, as the
\* generic push of PushPX does
PushMomentaAndMove(P, dt, unew) ==
    [j \in 1..Len(P) |-> IF dt # 0 THEN Advance(P[j], unew[j], dt) ELSE P[j]]

\* the momentum update of the first loop: unew[j] is the momentum the pusher
\* computes for particle j from its gathered and external fields
PushMomenta(P, dt, unew) ==
    [j \in 1..Len(P) |-> IF dt # 0 THEN Particle(Pos(P[j]), unew[j]) ELSE P[j]]

PushPOutcomes(P, dt) == { PushMomenta(P, dt, unew) : unew \in [1..Len(P) -> U] }

\* a second loop that lets the particles on the plane itself keep the push
UndoPushPStrict(P, G, zz) ==
    [j \in 1..Len(P) |-> IF G[j].z < zz THEN Particle(Pos(G[j]), Mom(P[j])) ELSE G[j]]

\* the second loop: particles at or below zz get their saved momentum back
UndoPushP(P, G, zz) ==
    [j \in 1..Len(P) |-> IF G[j].z <= zz THEN Particle(Pos(G[j]), Mom(P[j])) ELSE G[j]]

\* a dispatch that looks at the configured algorithm first
PusherOfAlgoFirst(crr, algo) ==
    IF algo = "Boris" THEN "Boris"
    ELSE IF algo = "Vay" THEN "Vay"
    ELSE IF algo = "HigueraCary" THEN "HigueraCary"
    ELSE IF crr THEN "BorisWithRadiationReaction"
    ELSE "Abort"

\* the routine the first loop's dispatch runs for each particle: the radiation
\* reaction push whenever do_crr is set, else the variant pusher_algo names,
\* else amrex::Abort
PusherOf(crr, algo) ==
    IF crr THEN "BorisWithRadiationReaction"
    ELSE IF algo = "Boris" THEN "Boris"
    ELSE IF algo = "Vay" THEN "Vay"
    ELSE IF algo = "HigueraCary" THEN "HigueraCary"
    ELSE "Abort"

\* the dispatch runs once per particle: a tile without particles never
\* reaches the abort
PushPAborts(np) == np > 0 /\ PusherOf(do_crr, pusher_algo) = "Abort"

PushP(lev, dt) ==
    /\ pc = "idle"
    /\ lev \in Levels
    /\ evolved = {}
    /\ synced = {}
    /\ synced' = {lev}
    /\ IF do_not_push
       THEN UNCHANGED << particles, pre, gen, last, pc >>
       ELSE LET P == particles[lev]
                call == [op |-> "PushP", lev |-> lev, offset |-> 0,
                         np_to_push |-> Len(P), dt |-> dt,
                         done |-> done_injecting_lev,
                         plane |-> zinject_plane_levels[lev], ub |-> FALSE,
                         pusher |-> PusherOf(do_crr, pusher_algo),
                         scale |-> NoCall.scale,
                         variants |-> [ip \in 1..Len(P) |->
                                          PusherOf(do_crr, pusher_algo)]]
            IN  IF PushPAborts(Len(P))
                THEN /\ pc' = "aborted"
                     /\ pre' = P
                     /\ gen' = P
                     /\ last' = call
                     /\ UNCHANGED particles
                ELSE \E G \in PushPOutcomes(P, dt) :
                       /\ particles' = [particles EXCEPT ![lev] =
                                           UndoPushP(P, G, zinject_plane_levels[lev])]
                       /\ pre' = P
                       /\ gen' = G
                       /\ last' = call
                       /\ UNCHANGED pc
    /\ UNCHANGED << aux, config, zinject_plane_levels, zinject_plane_lev,
                    zinject_plane_lev_previous, done_injecting_lev,
                    vzbeam_ave_boosted, plo, phi, evolving, stepDt, calls,
                    evolved, nstep, history >>

(***************************************************************************)
(* PushP, tile by tile                                                     *)
(*                                                                         *)
(* PushP runs its loop over the tiles of a level inside a parallel region: *)
(* each worker takes a tile, declares the snapshot vectors, runs the first *)
(* loop (save and push) and the second loop (undo), and goes on to its     *)
(* next tile. The workers interleave between the loops.                    *)
(***************************************************************************)
\* snapshot vectors that are one member of the container, used for every tile
BufferOfContainer(t) == 1

\* the snapshot vectors a worker uses for tile t: uxp_save, uyp_save, uzp_save
\* are declared inside the loop body, one set for each tile visit
BufferOfTile(t) == t

\* the particles are distributed over the tiles
TilesFill(beams) ==
    /\ ~omp.on
    /\ omp' = [omp EXCEPT !.on = TRUE, !.tile = beams,
                          !.phase = [t \in Tiles |-> "idle"]]
    /\ UNCHANGED << container, species, xsec, macro, prof, solver >>

\* the declaration of the vectors and the first loop on tile t: every
\* momentum is saved, then replaced by the pushed one
TileSaveAndPush(t, unew) ==
    /\ omp.on /\ omp.phase[t] = "idle" /\ omp.round[t] < MaxPushPCalls
    /\ LET P == omp.tile[t]
       IN  omp' = [omp EXCEPT
               !.phase[t] = "pushed",
               !.before[t] = P,
               !.save[BufferOfTile(t)] =
                   [j \in 1..Len(P) |-> [u |-> Mom(P[j]), of |-> t, call |-> omp.round[t]]],
               !.tile[t] = [j \in 1..Len(P) |-> Particle(Pos(P[j]), unew[j])],
               !.pushed[t] = [j \in 1..Len(P) |-> Particle(Pos(P[j]), unew[j])],
               !.reads[t] = { }]
    /\ UNCHANGED << container, species, xsec, macro, prof, solver >>

\* the second loop on tile t, and the end of the loop body, where the
\* vectors go out of scope
TileUndo(t) ==
    /\ omp.on /\ omp.phase[t] = "pushed"
    /\ LET G == omp.tile[t]
           S == omp.save[BufferOfTile(t)]
           below == { j \in 1..Len(G) : G[j].z <= TilePlane }
           \* what the vector holds at j: past its end, nothing this tile saved
           at(j) == IF j \in DOMAIN S THEN S[j]
                    ELSE [u |-> Mom(G[j]), of |-> 0, call |-> 0]
       IN  omp' = [omp EXCEPT
               !.phase[t] = "idle",
               !.round[t] = @ + 1,
               !.tile[t] = [j \in 1..Len(G) |->
                               IF j \in below THEN Particle(Pos(G[j]), at(j).u) ELSE G[j]],
               !.reads[t] = { [of |-> at(j).of, call |-> at(j).call] : j \in below },
               !.save[BufferOfTile(t)] = << >>]
    /\ UNCHANGED << container, species, xsec, macro, prof, solver >>

(***************************************************************************)
(* Specifications                                                          *)
(***************************************************************************)
\* the time loop, steps time steps long: PushP synchronises the momenta of
\* a level before the first step and after the last one
Step(steps) ==
    \/ \E lev \in Levels, dt \in Dts : nstep < steps /\ Evolve(lev, dt)
    \/ \E lev \in Levels, offset \in 0..MaxNpPush + 1, np_to_push \in 0..MaxNpPush + 1 :
          PushPX(lev, offset, np_to_push, stepDt)
    \/ \E lev \in Levels : EvolveEnd(lev)
    \/ MoveWindow
    \/ \E lev \in Levels :
          nstep \in {0, steps} /\ PushP(lev, PushPDt(nstep))

\* the injection plane over several time steps, with a small beam
Next ==
    \/ \E beam \in Beams(MaxNp), home \in Levels : InitData(beam, home)
    \/ Step(MaxSteps)

Spec == Init /\ [][Next]_vars

\* one time step of a larger beam, with a boost that moves the plane
InitPush ==
    /\ gamma_boost = 2 /\ v_boost = 3
    /\ moving_window_v = 0
    /\ zinject_plane \in { 4, 12 }
    /\ rigid_advance \in BOOLEAN
    /\ finestLevel = MaxLev
    /\ do_not_push = FALSE
    /\ pusher_algo = "Boris"
    /\ do_crr = FALSE
    /\ Constructed

NextPush ==
    \/ \E beam \in Beams(MaxNpPush), home \in Levels : InitData(beam, home)
    \/ Step(1)

SpecPush == InitPush /\ [][NextPush]_vars

\* the scenario of a boosted run: gamma_boost = 2, the plane of InitData on the
\* upper z bound of the domain, and a positive time step kept for the whole
\* run; the time loop keeps stepping
InitLive ==
    /\ gamma_boost = 2 /\ v_boost = 3
    /\ moving_window_v \in WindowVs
    /\ zinject_plane = 12
    /\ rigid_advance = FALSE
    /\ finestLevel \in 0..MaxLev
    /\ do_not_push = FALSE
    /\ pusher_algo = "Boris"
    /\ do_crr = FALSE
    /\ Constructed

NextLive ==
    \/ \E beam \in Beams(MaxNp), home \in Levels : InitData(beam, home)
    \/ \E lev \in Levels, dt \in Dts \ {0} : nstep < MaxStepsLive /\ Evolve(lev, dt)
    \/ \E lev \in Levels, np_to_push \in 0..MaxNp : PushPX(lev, 0, np_to_push, stepDt)
    \/ \E lev \in Levels : EvolveEnd(lev)
    \/ MoveWindow

SpecLive == InitLive /\ [][NextLive]_vars /\ WF_vars(NextLive)

\* the momentum synchronisation before the first step, for every setting of
\* the switches PushP reads
InitSync ==
    /\ gamma_boost = 2 /\ v_boost = 3
    /\ moving_window_v = 0
    /\ zinject_plane \in { 4, 12 }
    /\ rigid_advance = FALSE
    /\ finestLevel \in 0..MaxLev
    /\ do_not_push \in BOOLEAN
    /\ pusher_algo \in PusherAlgos
    /\ do_crr \in BOOLEAN
    /\ Constructed

NextSync ==
    \/ \E beam \in Beams(MaxNpPush), home \in Levels : InitData(beam, home)
    \/ \E lev \in Levels, dt \in { -1, 0, 1 } : PushP(lev, dt)

SpecSync == InitSync /\ [][NextSync]_vars

\* the stand-alone functions, next to a container that is never initialised
InitFunctions ==
    /\ gamma_boost = 1 /\ v_boost = 0
    /\ moving_window_v = 0
    /\ zinject_plane = 4
    /\ rigid_advance = FALSE
    /\ finestLevel = 0
    /\ do_not_push = FALSE
    /\ pusher_algo = "Boris"
    /\ do_crr = FALSE
    /\ Constructed

NextSpecies ==
    \/ \E name \in SpeciesNames : SpeciesFromString(name)
    \/ \E v \in SpeciesValues : SpeciesFromValue(v)
    \/ SpeciesGetCharge
    \/ SpeciesGetMass
    \/ SpeciesGetName
    \/ SpeciesFromName

NextCrossSection == \E E_kev \in EnergiesKev : CrossSection(E_kev)

NextAccessor ==
    \/ \E a_field \in FieldArrays, type \in InitTypes, value \in MacroValues,
          parser \in Parsers, stag \in Staggerings :
          AccessorBuild(a_field, type, value, parser, stag)
    \/ \E i \in CellIndices, j \in { 0 }, k \in CellIndices, ncomp \in Components :
          AccessorCall(i, j, k, ncomp)

NextProfiler ==
    \/ \E level \in SyncLevels : ProfilerOpen(level)
    \/ \E m \in MacroNames : ProfilerMacro(m)
    \/ ProfilerScopeExit

NextSolver ==
    \/ \E v_galilean_z \in GalileanVz : SolverConstruct(v_galilean_z)
    \/ \E method \in AlgorithmMethods \cup FieldDataMethods : SolverCall(method)

\* the families a run has not exercised
Fresh(family) ==
    /\ family = "species" \/ species = NoSpecies
    /\ family = "xsec" \/ xsec = NoCrossSection
    /\ family = "macro" \/ macro = NoAccessor
    /\ family = "prof" \/ prof = NoProfiler
    /\ family = "solver" \/ solver = NoSolver

\* a run exercises one family of functions
NextFunctions ==
    \/ (Fresh("species") /\ NextSpecies)
    \/ (Fresh("xsec") /\ NextCrossSection)
    \/ (Fresh("macro") /\ NextAccessor)
    \/ (Fresh("prof") /\ NextProfiler)
    \/ (Fresh("solver") /\ NextSolver)

SpecFunctions == InitFunctions /\ [][NextFunctions]_vars

\* the workers of the parallel region, each on a tile of its own
NextTiles ==
    \/ \E beams \in [Tiles -> Beams(MaxNp) \ { << >> }] : TilesFill(beams)
    \/ \E t \in Tiles, unew \in [1..MaxNp -> U] : TileSaveAndPush(t, unew)
    \/ \E t \in Tiles : TileUndo(t)

SpecTiles == InitFunctions /\ [][NextTiles]_vars

(***************************************************************************)
(* The injection plane and its flag                                        *)
(***************************************************************************)
\* the Evolve steps level lev has completed
StepsOf(lev) == 1..Len(history[lev])

StartedInside == ProbLo0 <= zinject_plane \div gamma_boost
                 /\ zinject_plane \div gamma_boost <= ProbHi0

\* C2: for a plane that starts inside the domain, a step ends with the flag
\* set exactly when its advanced plane is below the lower z bound with
\* moving_window_v + beta_boost*c >= 0 or above the upper z bound with
\* moving_window_v + beta_boost*c <= 0; so the flag is false in every step
\* whose advanced plane is still inside the domain, and is set in the first
\* step that has crossed.
C2_DoneAtFirstCrossing ==
    StartedInside =>
        \A lev \in Levels : \A i \in StepsOf(lev) :
            LET h == history[lev][i]
                below == h.plane < h.lo /\ moving_window_v + v_boost >= 0
                above == h.plane > h.hi /\ moving_window_v + v_boost <= 0
            IN  /\ (h.lo <= h.plane /\ h.plane <= h.hi) => ~h.done
                /\ h.done <=> (below \/ above)

\* a plane that started inside, was still inside (on the boundary) at the end
\* of the first step and had crossed at the end of the second
C2_Witness ==
    /\ StartedInside
    /\ \E lev \in Levels :
          /\ Len(history[lev]) >= 2
          /\ ~history[lev][1].done
          /\ history[lev][1].plane \in {history[lev][1].lo, history[lev][1].hi}
          /\ history[lev][2].done

\* InitData has run and no Evolve step has begun
BeforeFirstEvolve == pc = "idle" /\ nstep = 0 /\ evolved = {}

\* C9: after InitData every level 0..finestLevel has its plane at
\* zinject_plane/gamma_boost and the flag is false until an Evolve step.
C9_InitDataPlane ==
    BeforeFirstEvolve =>
        /\ DOMAIN zinject_plane_levels = Levels
        /\ \A lev \in Levels : zinject_plane_levels[lev] * gamma_boost = zinject_plane
        /\ ~done_injecting_lev

\* two levels initialised under a boost, still untouched after a PushP
C9_Witness ==
    /\ BeforeFirstEvolve
    /\ finestLevel = 1 /\ gamma_boost = 2 /\ synced # {}
    /\ zinject_plane_levels[0] = 6 /\ zinject_plane_levels[1] = 6

\* C10: during the generic part of Evolve(lev, dt) the previous position is
\* the plane before the advance, the current one is the level's stored plane,
\* they differ by dt*beta_boost*c, and the flag is the test on the advanced
\* plane; every PushPX call of the step sees that plane and that flag.
C10_EvolveOrder ==
    pc = "evolve" =>
        /\ zinject_plane_lev_previous - zinject_plane_lev = stepDt * v_boost
        /\ zinject_plane_lev = zinject_plane_levels[evolving]
        /\ done_injecting_lev <=>
              \/ (zinject_plane_lev < plo /\ moving_window_v + v_boost >= 0)
              \/ (zinject_plane_lev > phi /\ moving_window_v + v_boost <= 0)
        /\ Len(history[evolving]) >= 1 =>
              zinject_plane_lev_previous = history[evolving][Len(history[evolving])].plane
        /\ last.op = "PushPX" =>
              /\ last.plane = zinject_plane_levels[evolving]
              /\ last.done = done_injecting_lev

\* a PushPX call of a second step whose plane has moved and left the domain
C10_Witness ==
    /\ pc = "evolve" /\ last.op = "PushPX" /\ nstep = 1
    /\ stepDt = 2 /\ v_boost = 3
    /\ done_injecting_lev
    /\ zinject_plane_lev_previous >= plo

\* C11: from the plane of InitData with beta_boost > 0 and a fixed positive dt,
\* the flag is false at the start, repeated Evolve steps eventually set it
\* for good, and no step ever takes it back from true to false: it changes
\* from false to true exactly once.
C11_EventuallyDoneOnce ==
    /\ ~done_injecting_lev
    /\ <>[]done_injecting_lev
    /\ [][done_injecting_lev => done_injecting_lev']_vars

\* a level that ended steps with the flag unset, then set, and then stepped on
C11_Witness ==
    \E lev \in Levels :
        /\ Len(history[lev]) >= 3
        /\ ~history[lev][1].done
        /\ history[lev][Len(history[lev]) - 1].done
        /\ history[lev][Len(history[lev])].done
        /\ done_injecting_lev

\* the flag with which the most recent Evolve step of level lev ended
OwnFlag(lev) == history[lev][Len(history[lev])].done

\* C12: between Evolve calls the flag observed for a level is the one its own
\* most recent Evolve step computed; an Evolve step of another level does not
\* change it.
C12_FlagPerLevel ==
    pc = "idle" =>
        \A lev \in Levels : Len(history[lev]) >= 1 => done_injecting_lev = OwnFlag(lev)

\* C12 as amended: the flag is one scalar of the container. During Evolve on a
\* level, and in every PushPX call of that step, it is the test on that level's
\* advanced plane; between Evolve calls it is the flag of the level evolved
\* last, whichever level is asked about.
C12_FlagOfLastEvolve ==
    /\ pc = "evolve" =>
          /\ done_injecting_lev <=>
                \/ (zinject_plane_levels[evolving] < plo /\ moving_window_v + v_boost >= 0)
                \/ (zinject_plane_levels[evolving] > phi /\ moving_window_v + v_boost <= 0)
          /\ (last.op = "PushPX") => (last.lev = evolving /\ last.done = done_injecting_lev)
    /\ (pc = "idle" /\ Len(history[evolving]) >= 1) =>
          done_injecting_lev = OwnFlag(evolving)

\* between two Evolve calls the flag is set although the most recent step of
\* another level ended with it unset
C12_Witness ==
    /\ pc = "idle" /\ finestLevel = 1
    /\ done_injecting_lev
    /\ \E lev \in Levels : Len(history[lev]) >= 1 /\ ~OwnFlag(lev) /\ lev # evolving
    /\ moving_window_v + v_boost <= 0

(***************************************************************************)
(* PushPX and PushP on the particles                                       *)
(***************************************************************************)
\* a PushPX call has just returned
AfterPushPX == pc = "evolve" /\ last.op = "PushPX"
\* a PushP call has just returned
AfterPushP == pc = "idle" /\ last.op = "PushP"
\* the tile the last call worked on
Tile == particles[last.lev]
Indices == 1..Len(pre)
\* particle j was at or below the plane after the generic push
BelowPlane(j) == gen[j].z <= last.plane

\* C3: while INJECTING, after PushPX every particle whose post-push z is at or
\* below the plane has the three momentum components it had before the push.
C3_MomentumRestored ==
    (AfterPushPX /\ ~last.done) =>
        \A j \in Indices : BelowPlane(j) => Mom(Tile[j]) = Mom(pre[j])

\* C3 for the calls that start at the first particle of the tile
C3_MomentumRestoredOffset0 ==
    (AfterPushPX /\ ~last.done /\ last.offset = 0) =>
        \A j \in Indices : BelowPlane(j) => Mom(Tile[j]) = Mom(pre[j])

C5_RigidAdvance ==
    (AfterPushPX /\ ~last.done /\ rigid_advance) =>
        \A j \in Indices : BelowPlane(j) =>
            /\ Tile[j].x = pre[j].x
            /\ Tile[j].y = pre[j].y
            /\ Tile[j].z = pre[j].z + last.dt * vzbeam_ave_boosted

\* C5 for the calls that start at the first particle of the tile
C5_RigidAdvanceOffset0 ==
    (AfterPushPX /\ ~last.done /\ rigid_advance /\ last.offset = 0) =>
        \A j \in Indices : BelowPlane(j) =>
            /\ Tile[j].x = pre[j].x
            /\ Tile[j].y = pre[j].y
            /\ Tile[j].z = pre[j].z + last.dt * vzbeam_ave_boosted

\* C6: while INJECTING, a particle whose post-push z is strictly above the
\* plane keeps the position and momentum the generic push gave it.
C6_InjectedKeepPush ==
    (AfterPushPX /\ ~last.done) =>
        \A j \in Indices : ~BelowPlane(j) => Tile[j] = gen[j]

\* C6 for the calls that start at the first particle of the tile
C6_InjectedKeepPushOffset0 ==
    (AfterPushPX /\ ~last.done /\ last.offset = 0) =>
        \A j \in Indices : ~BelowPlane(j) => Tile[j] = gen[j]

\* C7: once DONE, after PushPX every particle, on either side of the plane,
\* has exactly the position and momentum the generic push gave it.
C7_DoneNoUndo ==
    (AfterPushPX /\ last.done) => Tile = gen

\* a DONE call that pushed a particle which ends at or below the plane and
\* one which ends above it
C7_Witness ==
    /\ AfterPushPX /\ last.done
    /\ \E j, k \in Indices :
          /\ BelowPlane(j) /\ gen[j] # pre[j] /\ Mom(gen[j]) # Mom(pre[j])
          /\ ~BelowPlane(k) /\ gen[k] # pre[k]

\* C8: once DONE, every particle of the level inside the domain, also one at
\* or below the level's plane, ends PushP with the momentum the pusher
\* computed.
C8_PushPDoneNoUndo ==
    (AfterPushP /\ last.done) =>
        \A j \in Indices :
            (plo <= pre[j].z /\ pre[j].z <= phi) => Mom(Tile[j]) = Mom(gen[j])

(***************************************************************************)
(* Configuration errors                                                    *)
(***************************************************************************)
\* a PushP call on a tile with particles has been made
PushPCalled == last.op = "PushP" /\ Len(pre) >= 1

\* C13: a PushP call with a pusher-algorithm value that is none of the known
\* variants aborts the process and updates no momentum, whatever the other
\* switches are, classical radiation reaction included.
C13_UnknownPusherAborts ==
    (PushPCalled /\ pusher_algo \notin KnownPushers) =>
        (pc = "aborted" /\ Tile = pre)

\* C13 without classical radiation reaction
C13_UnknownPusherAbortsNoCRR ==
    (PushPCalled /\ pusher_algo \notin KnownPushers /\ ~do_crr) =>
        (pc = "aborted" /\ Tile = pre)

\* the species in use is PhysicalSpecies::unspecified
Unspecified == species.ps = Enum(0)
\* the species in use holds a value outside the enumeration
OutsideEnum == species.ps.status = "value" /\ species.ps.int \notin DOMAIN PhysicalSpecies

\* C14: asking for the charge or mass of PhysicalSpecies::unspecified aborts
\* instead of returning a value, and so do an unknown species name and a value
\* outside the enumeration.
C14_UnspecifiedAborts ==
    /\ (Unspecified /\ species.charge # NotAsked) => species.charge = Abort
    /\ (Unspecified /\ species.mass # NotAsked) => species.mass = Abort
    /\ (species.name # "" /\ species.name \notin AcceptedNames) => species.aborted
    /\ (OutsideEnum /\ species.charge # NotAsked) => species.charge = Abort
    /\ (OutsideEnum /\ species.mass # NotAsked) => species.mass = Abort

\* C14 as amended: the charge and the mass of PhysicalSpecies::unspecified are
\* a quiet NaN, returned without aborting, and the name "unspecified" is
\* accepted; the process aborts only for a name from_string does not know and
\* for a charge, mass or name asked of a value outside the enumeration.
C14_UnspecifiedIsNaN ==
    /\ (Unspecified /\ species.charge # NotAsked) => species.charge = QuietNaN
    /\ (Unspecified /\ species.mass # NotAsked) => species.mass = QuietNaN
    /\ species.name = "unspecified" => (Unspecified /\ ~species.aborted)
    /\ (species.name # "" /\ species.name \notin AcceptedNames) => species.aborted
    /\ (OutsideEnum /\ species.charge # NotAsked) => species.charge = Abort
    /\ (OutsideEnum /\ species.mass # NotAsked) => species.mass = Abort
    /\ species.aborted <=>
          \/ species.name \notin AcceptedNames \cup {""}
          \/ OutsideEnum /\ Abort \in {species.charge, species.mass, species.label}

\* the species named "unspecified" has been asked for its charge and its mass
C14_Witness ==
    /\ species.name = "unspecified"
    /\ species.charge = QuietNaN /\ species.mass = QuietNaN
    /\ ~species.aborted

(***************************************************************************)
(* Stand-alone functions                                                   *)
(***************************************************************************)
\* C15: ProtonBoronFusionCrossSection called with a kinetic energy of exactly
\* 0 returns 0 through the early return: an ordinary value, with no division
\* by the energy evaluated.
C15_ZeroEnergyEarlyReturn ==
    (xsec.called /\ xsec.E_kin_star = 0) =>
        /\ xsec.result.status = "value"
        /\ xsec.result.factor = 0
        /\ xsec.result.early
        /\ xsec.result.divisors = << >>

\* the function has been called with a zero kinetic energy
C15_Witness == xsec.called /\ xsec.E_kin_star = 0 /\ xsec.result.early

\* the macroparameter of the accessor at the coordinates of cell (i, j, k):
\* lower corner plus index times cell size, plus half a cell where the field
\* is cell-centred
ParameterAtCell(i, j, k) ==
    LET g == macro.acc.m_getParameter
        st == macro.acc.m_field_stag
        x == DomainLo[1] + i * CellSize[1] + (IF st[1] = 0 THEN CellSize[1] \div 2 ELSE 0)
        y == DomainLo[2] + j * CellSize[2] + (IF st[2] = 0 THEN CellSize[2] \div 2 ELSE 0)
        z == DomainLo[3] + k * CellSize[3] + (IF st[3] = 0 THEN CellSize[3] \div 2 ELSE 0)
    IN  IF g.m_type = "ConstantValue" THEN g.m_value
        ELSE IF g.m_parser = "1+x+z" THEN 1 + x + z ELSE 2 + y

\* C18: FieldAccessorMacroscopic(i,j,k,ncomp) returns the stored field value
\* at (i,j,k,ncomp) divided by the macroparameter at the coordinates of that
\* cell, m_value for ConstantValue and the parser function of (x,y,z) for
\* ParserFunction; the call changes nothing of the accessor, the field array
\* or the parameter.
C18_FieldOverParameter ==
    /\ [](  (macro.called /\ macro.acc.m_getParameter.m_type # "Invalid"
                /\ ParameterAtCell(macro.at[1], macro.at[2], macro.at[3]) # 0)
           => /\ macro.result.status = "value"
              /\ macro.result.int * ParameterAtCell(macro.at[1], macro.at[2], macro.at[3])
                    = Array4(macro.acc.m_field, macro.at[1], macro.at[2],
                             macro.at[3], macro.at[4]) )
    /\ [][macro.built => macro'.acc = macro.acc]_vars

\* a call on a staggered field whose parameter is a parser function that
\* varies from cell to cell
C18_Witness ==
    /\ macro.called
    /\ macro.acc.m_getParameter.m_type = "ParserFunction"
    /\ macro.acc.m_getParameter.m_parser = "1+x+z"
    /\ macro.acc.m_field = "ramp"
    /\ macro.at = << 1, 0, 1, 1 >>
    /\ macro.acc.m_field_stag = << 1, 0, 1 >>
    /\ macro.result.status = "value" /\ macro.result.int = 2880

OwnPushPX(p, g) ==
    IF last.done \/ ~NotInjectedYet(g, last.plane)
    THEN g
    ELSE Particle([x |-> p.x, y |-> p.y, z |-> UndoneZ(p.z, Mom(p), last.dt)], Mom(p))

\* the same for PushP, which moves no particle
OwnPushP(p, g) ==
    IF g.z <= last.plane THEN Particle(Pos(g), Mom(p)) ELSE g

\* C16: after PushPX and after PushP the position and momentum of every
\* particle are a function of that particle's own pre-push state, its own
\* push and the plane position, and of no other particle.
C16_OwnStateOnly ==
    /\ AfterPushPX => \A j \in Indices : Tile[j] = OwnPushPX(pre[j], gen[j])
    /\ AfterPushP => \A j \in Indices : Tile[j] = OwnPushP(pre[j], gen[j])

\* C16 for PushP and for the PushPX calls that start at the first particle
C16_OwnStateOnlyOffset0 ==
    /\ (AfterPushPX /\ last.offset = 0) =>
           \A j \in Indices : Tile[j] = OwnPushPX(pre[j], gen[j])
    /\ AfterPushP => \A j \in Indices : Tile[j] = OwnPushP(pre[j], gen[j])

(***************************************************************************)
(* A step of length zero                                                   *)
(***************************************************************************)
\* C17: an Evolve step with dt = 0 leaves the plane where it was, and a PushPX
\* call of that step leaves every particle with the position and momentum it
\* had, whatever the side of the plane, the flag and rigid_advance.
C17_ZeroStepIdentity ==
    /\ (pc = "evolve" /\ stepDt = 0) =>
           /\ zinject_plane_lev = zinject_plane_lev_previous
           /\ zinject_plane_levels[evolving] = zinject_plane_lev
    /\ (AfterPushPX /\ last.dt = 0) => Tile = pre

\* C17 for the calls that start at the first particle of the tile
C17_ZeroStepIdentityOffset0 ==
    /\ (pc = "evolve" /\ stepDt = 0) =>
           /\ zinject_plane_lev = zinject_plane_lev_previous
           /\ zinject_plane_levels[evolving] = zinject_plane_lev
    /\ (AfterPushPX /\ last.dt = 0 /\ last.offset = 0) => Tile = pre

(***************************************************************************)
(* Who moves the plane                                                     *)
(***************************************************************************)
\* the Evolve calls made on level lev so far, the one in progress included
EvolveCalls(lev) ==
    Len(history[lev]) +
    (IF lev = evolving /\ (pc = "evolve" \/ (pc = "aborted" /\ last.op = "PushPX"))
     THEN 1 ELSE 0)

\* this step is the entry of Evolve on level lev
EvolveBegins(lev) == pc = "idle" /\ pc' = "evolve" /\ evolving' = lev

\* C20: after InitData the plane of a level changes only in an Evolve call on
\* that level, by one advance of dt*beta_boost*c per call; PushPX, PushP, the
\* end of the step and Evolve on another level leave it as it is, and nothing
\* sets it back: the plane is always the plane of InitData less one advance
\* for each Evolve call made on the level.
C20_PlaneOnlyByEvolve ==
    /\ [](pc # "new" =>
            \A lev \in Levels :
                zinject_plane_levels[lev] =
                    zinject_plane \div gamma_boost - EvolveCalls(lev) * stepDt * v_boost)
    /\ [][pc # "new" =>
            \A lev \in Levels :
                zinject_plane_levels'[lev] =
                    IF EvolveBegins(lev)
                    THEN zinject_plane_levels[lev] - stepDt' * v_boost
                    ELSE zinject_plane_levels[lev]]_vars

\* level 0 has evolved twice and level 1 has not begun its second step: the
\* two planes differ, neither is where InitData put it, and a PushPX call
\* of the step has returned
C20_Witness ==
    /\ finestLevel = 1 /\ nstep = 1
    /\ pc = "evolve" /\ evolving = 0 /\ last.op = "PushPX"
    /\ Len(history[0]) = 1 /\ Len(history[1]) = 1
    /\ zinject_plane_levels[0] # zinject_plane_levels[1]
    /\ zinject_plane_levels[1] # zinject_plane \div gamma_boost
    /\ zinject_plane_levels[0] = zinject_plane \div gamma_boost - 2 * stepDt * v_boost

(***************************************************************************)
(* The average beam velocity                                               *)
(***************************************************************************)
\* InitData has run and nothing has touched the particles since
JustInitialised == BeforeFirstEvolve /\ synced = {}

\* all particles of the container, level after level
RECURSIVE AllParticles(_)
AllParticles(lev) ==
    IF lev = 0 THEN particles[0] ELSE AllParticles(lev - 1) \o particles[lev]

InjectingPushPX == last.op = "PushPX" /\ ~last.done

\* the snapshot slots (0-based) the loops of the last call touched: loop
\* index i of 0..np-1 goes to slot offset + i
SlotsTouched == { last.offset + i : i \in 0..(Len(pre) - 1) }

\* C22: in a PushPX call while INJECTING, with offset >= 0 and
\* offset + np_to_push <= np, every snapshot slot read or written lies in
\* [0, np), np being the size of the buffers.
C22_SnapshotInRange ==
    (InjectingPushPX /\ last.offset + last.np_to_push <= Len(pre)) =>
        /\ \A k \in SlotsTouched : 0 <= k /\ k < Len(pre)
        /\ ~last.ub

\* C22 for the calls that start at the first particle of the tile
C22_SnapshotInRangeOffset0 ==
    (InjectingPushPX /\ last.offset = 0) =>
        /\ \A k \in SlotsTouched : 0 <= k /\ k < Len(pre)
        /\ ~last.ub

\* C23: at every index of the save and undo loops of PushPX the position and
\* the momentum handled are those of one and the same particle, whatever the
\* offset; so a particle has its momentum restored exactly when its own
\* post-push z is at or below the plane.
C23_SameParticle ==
    InjectingPushPX =>
        /\ \A i \in 0..(Len(pre) - 1) :
              PositionParticle(last.offset, i) = MomentumParticle(last.offset, i)
        /\ AfterPushPX =>
              \A j \in Indices :
                  Mom(Tile[j]) = IF BelowPlane(j) THEN Mom(pre[j]) ELSE Mom(gen[j])

\* C23 for the calls that start at the first particle of the tile
C23_SameParticleOffset0 ==
    (InjectingPushPX /\ last.offset = 0) =>
        /\ \A i \in 0..(Len(pre) - 1) :
              PositionParticle(last.offset, i) = MomentumParticle(last.offset, i)
        /\ AfterPushPX =>
              \A j \in Indices :
                  Mom(Tile[j]) = IF BelowPlane(j) THEN Mom(pre[j]) ELSE Mom(gen[j])

\* the momentum part of C23 alone
C23_RestoreByOwnZ ==
    (AfterPushPX /\ ~last.done) =>
        \A j \in Indices :
            Mom(Tile[j]) = IF BelowPlane(j) THEN Mom(pre[j]) ELSE Mom(gen[j])

(***************************************************************************)
(* Sub-range calls                                                         *)
(***************************************************************************)
\* particle j (1-based) is one of those the last call was asked to push
InRange(j) == last.offset < j /\ j <= last.offset + last.np_to_push

\* C24: a PushPX call for the sub-range (offset, np_to_push) changes position
\* and momentum only of the particles in [offset, offset + np_to_push) and
\* leaves the others of the tile as they were.
C24_SubRangeOnly ==
    AfterPushPX => \A j \in Indices : ~InRange(j) => Tile[j] = pre[j]

\* C24 once the level is DONE
C24_SubRangeOnlyDone ==
    (AfterPushPX /\ last.done) =>
        \A j \in Indices : ~InRange(j) => Tile[j] = pre[j]

(***************************************************************************)
(* PushP on the particles                                                  *)
(***************************************************************************)
\* particle j is at or below the plane of the level PushP was called for
AtOrBelowPlane(j) == pre[j].z <= last.plane

\* C25: while the level is INJECTING, after PushP every particle at or below
\* the level's plane has the momentum it had before the call, and every
\* particle strictly above it has the momentum the pusher computed.
C25_PushPUndo ==
    (AfterPushP /\ ~last.done) =>
        \A j \in Indices :
            Mom(Tile[j]) = IF AtOrBelowPlane(j) THEN Mom(pre[j]) ELSE Mom(gen[j])

\* a PushP that gave new momenta to a particle on the plane, which lost it,
\* and to a particle above the plane, which kept it
C25_Witness ==
    /\ AfterPushP /\ ~last.done /\ last.dt # 0
    /\ \E j, k \in Indices :
          /\ pre[j].z = last.plane
          /\ Mom(gen[j]) # Mom(pre[j]) /\ Mom(Tile[j]) = Mom(pre[j])
          /\ pre[k].z > last.plane
          /\ Mom(gen[k]) # Mom(pre[k]) /\ Mom(Tile[k]) = Mom(gen[k])

\* the momentum update the configuration asks for
ConfiguredVariant == IF do_crr THEN "BorisWithRadiationReaction" ELSE pusher_algo

\* C26: a PushP call that returns has applied exactly one momentum update to
\* each particle, the same to all of them: Boris with radiation reaction when
\* classical radiation reaction is on, otherwise Boris, Vay or Higuera-Cary
\* as the pusher algorithm says.
C26_OneVariant ==
    AfterPushP =>
        /\ Len(last.variants) = Len(pre)
        /\ \A ip \in Indices :
              /\ last.variants[ip] = ConfiguredVariant
              /\ last.variants[ip] \in KnownPushers \cup { "BorisWithRadiationReaction" }
              /\ do_crr \/ last.variants[ip] = pusher_algo

\* radiation reaction on top of a configured Vay pusher, on two particles
\* that both got new momenta
C26_Witness ==
    /\ AfterPushP /\ Len(pre) = 2 /\ last.dt # 0
    /\ do_crr /\ pusher_algo = "Vay"
    /\ last.variants = << "BorisWithRadiationReaction", "BorisWithRadiationReaction" >>
    /\ Mom(gen[1]) # Mom(pre[1]) /\ Mom(gen[2]) # Mom(pre[2])

\* this step is a PushP call
PushPStep == pc = "idle" /\ synced = {} /\ synced' # {}

\* the positions of all particles of all levels
Positions == [lev \in Levels |-> [j \in 1..Len(particles[lev]) |-> Pos(particles[lev][j])]]

\* C27: a PushP call changes momenta only: every particle position, the plane
\* of every level and the done-injecting flag are as before, and with
\* do_not_push set nothing of the container's state changes at all.
C27_PushPMomentaOnly ==
    [][PushPStep =>
          /\ Positions' = Positions
          /\ zinject_plane_levels' = zinject_plane_levels
          /\ zinject_plane_lev' = zinject_plane_lev
          /\ zinject_plane_lev_previous' = zinject_plane_lev_previous
          /\ done_injecting_lev' = done_injecting_lev
          /\ vzbeam_ave_boosted' = vzbeam_ave_boosted
          /\ \A lev \in Levels : lev \notin synced' => particles'[lev] = particles[lev]
          /\ do_not_push =>
                 /\ particles' = particles
                 /\ pc' = pc /\ last' = last /\ plo' = plo /\ phi' = phi]_vars

\* after the last step, with the plane moved and the flag set: a PushP that
\* changed the momentum of a particle and left it where it was
C27_Witness ==
    /\ AfterPushP /\ ~do_not_push /\ nstep = MaxSteps /\ last.done
    /\ zinject_plane_levels[last.lev] # zinject_plane \div gamma_boost
    /\ \E j \in Indices :
          /\ Mom(Tile[j]) # Mom(pre[j])
          /\ Pos(Tile[j]) = Pos(pre[j])

\* with do_not_push set, a PushP call on a level that holds a particle has
\* returned and left no trace
C27_WitnessDoNotPush ==
    /\ do_not_push /\ pc = "idle" /\ synced # {} /\ last = NoCall
    /\ \E lev \in synced : particles[lev] # << >>

(***************************************************************************)
(* Profiling macros                                                        *)
(***************************************************************************)
\* the macros whose name says DETAIL
DetailMacros == { "WARPX_DETAIL_PROFILE", "WARPX_DETAIL_PROFILE_VAR",
                  "WARPX_DETAIL_PROFILE_VAR_NS", "WARPX_DETAIL_PROFILE_VAR_START",
                  "WARPX_DETAIL_PROFILE_VAR_STOP", "WARPX_DETAIL_PROFILE_REGION" }

\* the trace of a scope that holds one scoped macro of detail level d and has
\* been left: a synchronization point, the timer's start, a synchronization
\* point, the timer's stop
ScopedTrace(d) ==
    doDeviceSynchronize(prof.level, d) \o << Event("start", 0) >> \o
    doDeviceSynchronize(prof.level, d) \o << Event("stop", 0) >>

\* C28: the profiling macros synchronize the device exactly when
\* WarpX::do_device_synchronize is at least the macro's detail level, 1 for
\* the WARPX_PROFILE macros and 2 for the WARPX_DETAIL_PROFILE ones; a scope
\* with one WARPX_PROFILE synchronizes once before the timer starts and once
\* on exit before the timer stops.
C28_SynchronizeByLevel ==
    /\ \A m \in MacroNames :
          ProfileMacros[m].detail = IF m \in DetailMacros THEN 2 ELSE 1
    /\ \A i \in DOMAIN prof.trace :
          LET e == prof.trace[i]
          IN  /\ e.kind = "synchronize" => prof.level >= e.detail
              /\ e.kind = "skip" => prof.level < e.detail
    /\ \A m \in { "WARPX_PROFILE", "WARPX_DETAIL_PROFILE" } :
          (prof.closed /\ prof.used = << m >>) =>
              prof.trace = ScopedTrace(ProfileMacros[m].detail)

\* a scope with one WARPX_PROFILE, left in a run that synchronizes at level 1
C28_Witness ==
    /\ prof.closed /\ prof.level = 1 /\ prof.used = << "WARPX_PROFILE" >>
    /\ prof.trace = << Event("synchronize", 1), Event("start", 0),
                       Event("synchronize", 1), Event("stop", 0) >>

\* the same scope with WARPX_DETAIL_PROFILE, which level 1 does not reach
C28_WitnessDetail ==
    /\ prof.closed /\ prof.level = 1 /\ prof.used = << "WARPX_DETAIL_PROFILE" >>
    /\ prof.trace = << Event("skip", 2), Event("start", 0),
                       Event("skip", 2), Event("stop", 0) >>

(***************************************************************************)
(* The spectral solver's algorithm                                         *)
(***************************************************************************)
\* C29: SpectralSolverRZ chooses its algorithm in the constructor, the
\* standard PSATD algorithm exactly when v_galilean[2] is 0 and the Galilean
\* one otherwise; pushSpectralFields, ComputeSpectralDivE, CurrentCorrection
\* and VayDeposition are all handed to that object, which never changes, and
\* PML is off.
C29_AlgorithmChosenOnce ==
    /\ [](solver.built =>
            /\ solver.algorithm = "PsatdAlgorithmRZ" <=> solver.v_galilean_z = 0
            /\ solver.algorithm = "GalileanPsatdAlgorithmRZ" <=> solver.v_galilean_z # 0
            /\ ~solver.pml
            /\ \A i \in DOMAIN solver.calls :
                  solver.calls[i].method \in AlgorithmMethods =>
                      solver.calls[i].on = solver.algorithm)
    /\ [][solver.built =>
            /\ solver'.algorithm = solver.algorithm
            /\ solver'.pml = solver.pml]_vars

\* a Galilean solver on which three of the four functions have been called
C29_Witness ==
    /\ solver.built /\ solver.v_galilean_z = 1
    /\ solver.algorithm = "GalileanPsatdAlgorithmRZ"
    /\ Len(solver.calls) = 3
    /\ solver.calls[1].method = "pushSpectralFields"
    /\ solver.calls[2].method = "CurrentCorrection"
    /\ solver.calls[3].method = "VayDeposition"
    /\ \A i \in 1..3 : solver.calls[i].on = "GalileanPsatdAlgorithmRZ"

(***************************************************************************)
(* Species names                                                           *)
(***************************************************************************)
\* the name an accepted name comes back as
CanonicalName(n) ==
    IF n = "proton" THEN "hydrogen" ELSE IF n = "alpha" THEN "helium" ELSE n

\* C30: for every PhysicalSpecies value ps, from_string(get_name(ps)) is ps;
\* for every accepted name s, get_name(from_string(s)) is s, except that the
\* aliases "proton" and "alpha" come back as "hydrogen" and "helium".
C30_NameRoundTrip ==
    /\ (species.name = "" /\ species.ps.status = "value"
            /\ species.ps.int \in DOMAIN PhysicalSpecies) =>
           /\ species.label # NotAsked => species.label.status = "value"
           /\ species.reparsed # NotAsked => species.reparsed = species.ps
    /\ (species.name \in AcceptedNames) =>
           /\ species.ps.status = "value"
           /\ species.label # NotAsked =>
                  species.label = String(CanonicalName(species.name))
           /\ species.name \in { "proton", "alpha" } =>
                  species.ps.int \in { Enumerator("hydrogen"), Enumerator("helium") }

\* helium by value, named and parsed back
C30_Witness ==
    /\ species.name = "" /\ species.ps = Enum(Enumerator("helium"))
    /\ species.label = String("helium")
    /\ species.reparsed = Enum(Enumerator("helium"))

\* the alias "proton", parsed and named
C30_WitnessAlias ==
    /\ species.name = "proton" /\ species.ps = Enum(Enumerator("hydrogen"))
    /\ species.label = String("hydrogen")
====
